---------------------------- MODULE Spec2Model ----------------------------
(***************************************************************************)
(* A model of IDScanner (src/IDscan.py).                                   *)
(*                                                                         *)
(* Strings are sequences of one-character strings, so that the regular     *)
(* expressions and str methods of extract_student_info are computed        *)
(* character by character.  The module holds two state machines over one   *)
(* set of variables:                                                       *)
(*   Spec     the line loop of extract_student_info on a bounded text;     *)
(*   RunSpec  the run loop, capture_and_process_scan and mouse_callback.   *)
(***************************************************************************)
EXTENDS Integers, Sequences, FiniteSets, TLC

VARIABLES
    \* ---- extract_student_info ----
    text,        \* the argument: a sequence of characters, "\n" separated
    lines,       \* the list built at line 239
    epc,         \* "start" (before line 239), "loop" (line 257), "done" (350)
    idx,         \* number of lines of `lines` already processed by the loop
    rec,         \* student_no, name, course, year, name_found and the
                 \* branch (via) and line (at) that accepted the name
    \* ---- run / mouse_callback / capture_and_process_scan ----
    pc,          \* position of the run loop (see the actions below)
    frame_size,  \* <<width, height>> of the frames the camera delivers
    button_area, \* self.button_area, or <<>> while the attribute is unset
    button_pressed,
    button_hover,
    trigger_scan,
    callback_set,\* cv2.setMouseCallback has been executed
    key,         \* the key read by cv2.waitKey at line 450
    files,       \* numbers of files written: original, processed, data
    captures,    \* number of calls of capture_and_process_scan
    cap,         \* the most recent capture: OCR calls made, data files
                 \* written, outcome of the OCR call, value returned
    last_data,   \* the fields written to the most recent data file
    \* ---- history (observation only) ----
    ev,          \* the mouse event <<event, inside>> handled by the most
                 \* recent step; <<"none", FALSE>> after a step of the loop
    last_press,  \* where the most recent left-button press fell
    accessed,    \* <<who, attribute, "r"|"w">>: accesses to attributes of
                 \* self by the loop and by the callback
    overwritten, \* the callback wrote the flag between the loop's test
                 \* (line 455) and the loop's clear (line 457)
    failed_read, \* a frame acquisition has returned no frame
    iter_captures, \* captures started by the current iteration of the loop
    clicks,      \* completed clicks (the callback writing the flag) since
                 \* the loop last wrote the flag: 0, 1, or 2 for several
    merged       \* the value of clicks at the clear of line 457, until the
                 \* capture that follows the clear has returned; else 0

evars == <<text, lines, epc, idx, rec>>
rvars == <<pc, frame_size, button_area, button_pressed, button_hover,
           trigger_scan, callback_set, key, files, captures, cap, last_data>>
hvars == <<ev, last_press, accessed, overwritten, failed_read,
           iter_captures, clicks, merged>>
vars == <<evars, rvars, hvars>>

---------------------------------------------------------------------------
(* Characters and the str methods used by extract_student_info.            *)

UpperLetters ==
    <<"A","B","C","D","E","F","G","H","I","J","K","L","M",
      "N","O","P","Q","R","S","T","U","V","W","X","Y","Z">>

LowerLetters ==
    <<"a","b","c","d","e","f","g","h","i","j","k","l","m",
      "n","o","p","q","r","s","t","u","v","w","x","y","z">>

UpperSet == {UpperLetters[k] : k \in 1..26}

LowerSet == {LowerLetters[k] : k \in 1..26}

DigitSet == {"0","1","2","3","4","5","6","7","8","9"}

SpaceSet == {" ", "\t", "\n"}

IsDigit(c) == c \in DigitSet

IsAlpha(c) == c \in UpperSet \/ c \in LowerSet

IsUpperChar(c) == c \in UpperSet

IsSpace(c) == c \in SpaceSet

\* \w of the re module
IsWord(c) == IsAlpha(c) \/ IsDigit(c) \/ c = "_"

ToUpperChar(c) ==
    IF c \in LowerSet
    THEN UpperLetters[CHOOSE k \in 1..26 : LowerLetters[k] = c]
    ELSE c

ToLowerChar(c) ==
    IF c \in UpperSet
    THEN LowerLetters[CHOOSE k \in 1..26 : UpperLetters[k] = c]
    ELSE c

\* str.upper
Upper(s) == [k \in 1..Len(s) |-> ToUpperChar(s[k])]

\* str.title: a letter that follows a letter is lowered, any other raised
Title(s) ==
    [k \in 1..Len(s) |->
        IF k > 1 /\ IsAlpha(s[k-1]) THEN ToLowerChar(s[k])
        ELSE ToUpperChar(s[k])]

\* str.strip
Strip(s) ==
    LET keep == {k \in 1..Len(s) : ~IsSpace(s[k])}
    IN  IF keep = {} THEN <<>>
        ELSE LET lo == CHOOSE k \in keep : \A j \in keep : k <= j
                 hi == CHOOSE k \in keep : \A j \in keep : k >= j
             IN  SubSeq(s, lo, hi)

\* sub occurs in s at position p
OccursAt(s, sub, p) ==
    /\ p >= 1
    /\ p + Len(sub) - 1 <= Len(s)
    /\ \A k \in 1..Len(sub) : s[p + k - 1] = sub[k]

\* the operator `in` on strings
Contains(s, sub) == \E p \in 1..(Len(s) + 1) : OccursAt(s, sub, p)

\* str.split(sep) for a one-character separator: the segments between
\* the separators, empty ones included
RECURSIVE SplitChar(_, _)
SplitChar(s, sep) ==
    LET at == {k \in 1..Len(s) : s[k] = sep}
    IN  IF at = {} THEN <<s>>
        ELSE LET p == CHOOSE k \in at : \A j \in at : k <= j
             IN  <<SubSeq(s, 1, p - 1)>> \o SplitChar(SubSeq(s, p + 1, Len(s)), sep)

\* line.split(":", 1)[1]: what follows the first colon
AfterFirstColon(s) ==
    LET at == {k \in 1..Len(s) : s[k] = ":"}
        p == CHOOSE k \in at : \A j \in at : k <= j
    IN  SubSeq(s, p + 1, Len(s))

\* str.replace(old, ""): the occurrences of old, left to right and not
\* overlapping, are removed
RECURSIVE RemoveAll(_, _)
RemoveAll(s, old) ==
    IF s = <<>> THEN <<>>
    ELSE IF OccursAt(s, old, 1)
         THEN RemoveAll(SubSeq(s, Len(old) + 1, Len(s)), old)
         ELSE <<s[1]>> \o RemoveAll(Tail(s), old)

\* str.replace(ch, "") for the single characters removed at line 344
RemoveChars(s, cs) == SelectSeq(s, LAMBDA c : c \notin cs)

\* str.isalpha: not empty and letters only
IsAlphaStr(s) == s # <<>> /\ \A k \in 1..Len(s) : IsAlpha(s[k])

\* str.split() with no argument: the maximal runs of non-whitespace
RECURSIVE Words(_)
Words(s) ==
    LET t == Strip(s)
    IN  IF t = <<>> THEN <<>>
        ELSE LET sp == {k \in 1..Len(t) : IsSpace(t[k])}
             IN  IF sp = {} THEN <<t>>
                 ELSE LET p == CHOOSE k \in sp : \A j \in sp : k <= j
                      IN  <<SubSeq(t, 1, p - 1)>> \o Words(SubSeq(t, p + 1, Len(t)))

\* re.sub(r'[^\w\s]', ' ', line), line 318
PunctToSpace(s) ==
    [k \in 1..Len(s) |-> IF IsWord(s[k]) \/ IsSpace(s[k]) THEN s[k] ELSE " "]

\* sum(1 for c in line if c.isalpha()), line 328
AlphaCount(s) == Cardinality({k \in 1..Len(s) : IsAlpha(s[k])})

---------------------------------------------------------------------------
(* The regular expressions of extract_student_info (lines 246-252, 299,    *)
(* 327, 343), each computed as re.search computes it: the leftmost         *)
(* position at which the pattern matches, alternatives in their written    *)
(* order, counted repetitions longest first.  A search returns the matched *)
(* text, or <<>> when nothing matches (no pattern matches the empty text). *)

IsWordAt(s, k) == k >= 1 /\ k <= Len(s) /\ IsWord(s[k])

\* \b between positions k-1 and k
Boundary(s, k) == IsWordAt(s, k - 1) # IsWordAt(s, k)

DigitsAt(s, p, n) ==
    /\ p + n - 1 <= Len(s)
    /\ \A k \in p..(p + n - 1) : IsDigit(s[k])

UppersAt(s, p, n) ==
    /\ p + n - 1 <= Len(s)
    /\ \A k \in p..(p + n - 1) : IsUpperChar(s[k])

Leftmost(S) == CHOOSE k \in S : \A j \in S : k <= j

\* \d{4}-\d{2} at position p
StudentNoAt(s, p) ==
    /\ DigitsAt(s, p, 4)
    /\ p + 4 <= Len(s) /\ s[p + 4] = "-"
    /\ DigitsAt(s, p + 5, 2)

\* student_no_pattern = r'\b\d{4}-\d{2}\b', line 246
SearchStudentNo(s) ==
    LET at == {p \in 1..Len(s) :
                  Boundary(s, p) /\ StudentNoAt(s, p) /\ Boundary(s, p + 7)}
    IN  IF at = {} THEN <<>>
        ELSE SubSeq(s, Leftmost(at), Leftmost(at) + 6)

\* re.search(r'\d{4}-\d{2}', ...), line 299
LooksLikeStudentNo(s) == \E p \in 1..Len(s) : StudentNoAt(s, p)

\* re.search(r'\d{4}', line), line 327
HasFourDigits(s) == \E p \in 1..Len(s) : DigitsAt(s, p, 4)

\* re.search(r'\d', line), line 343
HasDigit(s) == \E p \in 1..Len(s) : IsDigit(s[p])

CoursePrefixes == <<<<"B","S">>, <<"B","A">>, <<"A","B">>, <<"B","S","C">>>>

\* one alternative of course_pattern at p: the prefix, then [A-Z]{2,4}
\* longest first, then \b; the position after the match, or 0
CourseAltEnd(s, p, prefix) ==
    LET q == p + Len(prefix)
        fits(n) == UppersAt(s, q, n) /\ Boundary(s, q + n)
    IN  IF ~OccursAt(s, prefix, p) THEN 0
        ELSE IF fits(4) THEN q + 4
        ELSE IF fits(3) THEN q + 3
        ELSE IF fits(2) THEN q + 2
        ELSE 0

\* course_pattern at p: the first alternative that matches
CourseEnd(s, p) ==
    LET ok == {a \in 1..Len(CoursePrefixes) :
                  CourseAltEnd(s, p, CoursePrefixes[a]) # 0}
    IN  IF ~Boundary(s, p) \/ ok = {} THEN 0
        ELSE CourseAltEnd(s, p, CoursePrefixes[Leftmost(ok)])

\* course_pattern, line 249, searched in the uppercased line
SearchCourse(s) ==
    LET at == {p \in 1..Len(s) : CourseEnd(s, p) # 0}
    IN  IF at = {} THEN <<>>
        ELSE SubSeq(s, Leftmost(at), CourseEnd(s, Leftmost(at)) - 1)

YearWords ==
    <<<<"F","I","R","S","T">>,
      <<"S","E","C","O","N","D">>,
      <<"T","H","I","R","D">>,
      <<"F","O","U","R","T","H">>,
      <<"1","S","T">>,
      <<"2","N","D">>,
      <<"3","R","D">>,
      <<"4","T","H">>>>

kYEAR == <<"Y","E","A","R">>

\* the first position at or after q that holds no whitespace: [\s]*
SkipSpaces(s, q) ==
    LET rest == {k \in q..Len(s) : ~IsSpace(s[k])}
    IN  IF rest = {} THEN Len(s) + 1 ELSE Leftmost(rest)

\* year_pattern at p: the position after the match, or 0
YearEnd(s, p) ==
    LET ok == {a \in 1..Len(YearWords) :
                  /\ OccursAt(s, YearWords[a], p)
                  /\ LET r == SkipSpaces(s, p + Len(YearWords[a]))
                     IN  OccursAt(s, kYEAR, r) /\ Boundary(s, r + 4)}
    IN  IF ~Boundary(s, p) \/ ok = {} THEN 0
        ELSE SkipSpaces(s, p + Len(YearWords[Leftmost(ok)])) + 4

\* year_pattern, line 252, searched in the uppercased line
SearchYear(s) ==
    LET at == {p \in 1..Len(s) : YearEnd(s, p) # 0}
    IN  IF at = {} THEN <<>>
        ELSE SubSeq(s, Leftmost(at), YearEnd(s, Leftmost(at)) - 1)

---------------------------------------------------------------------------
(* extract_student_info, lines 234-350.                                    *)

kNAME == <<"N","A","M","E">>

kNOMBRE == <<"N","O","M","B","R","E">>

\* name_keywords, line 282
NameKeywords ==
    <<kNAME,
      <<"S","T","U","D","E","N","T"," ","N","A","M","E">>,
      <<"F","U","L","L"," ","N","A","M","E">>,
      kNOMBRE>>

\* lines = [line.strip() for line in text.split('\n') if line.strip()]
ParseLines(t) ==
    LET raw == SplitChar(t, "\n")
        stripped == [k \in 1..Len(raw) |-> Strip(raw[k])]
    IN  SelectSeq(stripped, LAMBDA l : l # <<>>)

\* a variant of InitialFields that starts from the text shown for a
\* missing field (lines 389-392)
InitialFieldsNotFound ==
    LET nf == <<"N","o","t"," ","f","o","u","n","d">>
    IN  [student_no |-> nf, name |-> nf, course |-> nf, year |-> nf,
         name_found |-> FALSE, via |-> "none", at |-> 0]

\* lines 240-243 and 254: the fields before the loop; via and at record
\* which of the five accepting branches set the name and on which line
InitialFields ==
    [student_no |-> <<>>, name |-> <<>>, course |-> <<>>, year |-> <<>>,
     name_found |-> FALSE, via |-> "none", at |-> 0]

\* a first-match-wins variant of UpdateField
UpdateFieldKeepFirst(old, m) == IF old # <<>> THEN old ELSE m

\* `if m: field = m.group()`, lines 263-264, 269-270, 275-276
UpdateField(old, m) == IF m # <<>> THEN m ELSE old

NoName == [found |-> FALSE, name |-> <<>>, via |-> "none"]

Accepted(n, v) == [found |-> TRUE, name |-> n, via |-> v]

\* lines 286-294: the text after the first colon of the keyword line
SubA(line) ==
    IF \E k \in 1..Len(line) : line[k] = ":"
    THEN LET potential_name == Strip(AfterFirstColon(line))
         IN  IF Len(potential_name) > 2 THEN Accepted(potential_name, "1a")
             ELSE NoName
    ELSE NoName

\* lines 297-303: the line after the keyword line (i counts from 1)
SubB(ls, i) ==
    IF i + 1 <= Len(ls)
    THEN LET potential_name == Strip(ls[i + 1])
         IN  IF Len(potential_name) > 2 /\ ~LooksLikeStudentNo(potential_name)
             THEN Accepted(potential_name, "1b")
             ELSE NoName
    ELSE NoName

\* lines 306-312: the uppercased line with the keyword removed
SubC(line_upper, keyword) ==
    LET clean_line == Strip(RemoveAll(line_upper, keyword))
    IN  IF Len(clean_line) > 2 THEN Accepted(Title(clean_line), "1c")
        ELSE NoName

\* a variant of KeywordTry that looks at the next line first
KeywordTryNextLineFirst(ls, i, keyword) ==
    LET a == SubA(ls[i])
        b == SubB(ls, i)
    IN  IF b.found THEN b
        ELSE IF a.found THEN a
        ELSE SubC(Upper(ls[i]), keyword)

\* lines 285-312, the body of `if keyword in line_upper`
KeywordTry(ls, i, keyword) ==
    LET a == SubA(ls[i])
        b == SubB(ls, i)
    IN  IF a.found THEN a
        ELSE IF b.found THEN b
        ELSE SubC(Upper(ls[i]), keyword)

\* lines 283-312: `for keyword in name_keywords`, left by break on success
RECURSIVE KeywordLoop(_, _, _)
KeywordLoop(ls, i, k) ==
    IF k > Len(NameKeywords) THEN NoName
    ELSE IF Contains(Upper(ls[i]), NameKeywords[k])
         THEN LET r == KeywordTry(ls, i, NameKeywords[k])
              IN  IF r.found THEN r ELSE KeywordLoop(ls, i, k + 1)
         ELSE KeywordLoop(ls, i, k + 1)

\* Method 1, lines 281-312
Method1(ls, i) == KeywordLoop(ls, i, 1)

\* a variant of LooksLikeName that asks for 0.9 of the line to be letters
LooksLikeNameStrict(line) ==
    LET clean_line == Strip(PunctToSpace(line))
        words == Words(clean_line)
    IN  /\ Len(words) >= 2
        /\ Len(clean_line) >= 5
        /\ Len(clean_line) <= 50
        /\ SearchStudentNo(line) = <<>>
        /\ SearchCourse(Upper(line)) = <<>>
        /\ ~Contains(Upper(line), kYEAR)
        /\ ~HasFourDigits(line)
        /\ 10 * AlphaCount(line) > 9 * Len(line)

\* the first condition of Method 2, lines 321-328
LooksLikeName(line) ==
    LET clean_line == Strip(PunctToSpace(line))
        words == Words(clean_line)
    IN  /\ Len(words) >= 2
        /\ Len(clean_line) >= 5
        /\ Len(clean_line) <= 50
        /\ SearchStudentNo(line) = <<>>
        /\ SearchCourse(Upper(line)) = <<>>
        /\ ~Contains(Upper(line), kYEAR)
        /\ ~HasFourDigits(line)
        /\ 10 * AlphaCount(line) > 7 * Len(line)

\* the second condition of Method 2, lines 331-332
HasNameWord(line) ==
    LET words == Words(Strip(PunctToSpace(line)))
    IN  \/ \E k \in 1..Len(words) : IsUpperChar(words[k][1])
        \/ \E k \in 1..Len(words) : Len(words[k]) > 2

\* a variant of Method2 that leaves out the check of the words
Method2Unchecked(line) ==
    IF Len(line) > 3 /\ LooksLikeName(line)
    THEN Accepted(Strip(line), "2")
    ELSE NoName

\* Method 2, lines 315-335
Method2(line) ==
    IF Len(line) > 3 /\ LooksLikeName(line) /\ HasNameWord(line)
    THEN Accepted(Strip(line), "2")
    ELSE NoName

\* Method 3, lines 338-347 (i counts from 1)
Method3(ls, i, student_no) ==
    IF /\ student_no # <<>>
       /\ i > 1
       /\ Contains(ls[i - 1], student_no)
       /\ Len(ls[i]) > 3
       /\ ~HasDigit(ls[i])
       /\ IsAlphaStr(RemoveChars(ls[i], {" ", ".", ","}))
    THEN Accepted(Strip(ls[i]), "3")
    ELSE NoName

\* lines 281-347: the three methods in order on line i
NameSearch(ls, i, student_no) ==
    LET m1 == Method1(ls, i)
        m2 == Method2(ls[i])
    IN  IF m1.found THEN m1
        ELSE IF m2.found THEN m2
        ELSE Method3(ls, i, student_no)

\* a variant of NameWanted that searches every line
NameWantedAlways(r) == r.name_found \/ ~r.name_found

\* `if not name_found:`, line 280
NameWanted(r) == ~r.name_found

\* one iteration of the loop at line 257, on line i of ls
LineStep(ls, i, r) ==
    LET line == ls[i]
        line_upper == Upper(line)
        student_no == UpdateField(r.student_no, SearchStudentNo(line))
        course == UpdateField(r.course, SearchCourse(line_upper))
        year == UpdateField(r.year, SearchYear(line_upper))
        n == IF NameWanted(r) THEN NameSearch(ls, i, student_no) ELSE NoName
    IN  [student_no |-> student_no,
         course |-> course,
         year |-> year,
         name |-> IF n.found THEN n.name ELSE r.name,
         name_found |-> r.name_found \/ n.found,
         via |-> IF n.found THEN n.via ELSE r.via,
         at |-> IF n.found THEN i ELSE r.at]

\* the whole function: the loop run from line i to the end
RECURSIVE ExtractFrom(_, _, _)
ExtractFrom(ls, i, r) ==
    IF i > Len(ls) THEN r ELSE ExtractFrom(ls, i + 1, LineStep(ls, i, r))

\* extract_student_info(text)
Extract(t) == ExtractFrom(ParseLines(t), 1, InitialFields)

---------------------------------------------------------------------------
(* The texts extract_student_info is run on: up to MaxLines raw lines of   *)
(* the catalogue, joined by newlines.                                      *)

MaxLines == 2

LnStudentNo == <<"1","2","3","4","-","5","6">>

LnStudentNo2 == <<" ","9","8","7","6","-","5","4">>

LnJuan == <<"J","u","a","n"," ","D","e","l","a"," ","C","r","u","z">>

LnNameJuan == <<"N","A","M","E",":"," ","J","u","a","n"," ","D","e","l","a"," ","C","r","u","z">>

LnName == <<"N","A","M","E">>

LnDigits == <<"1","2","3","4","5">>

LnCourse == <<"B","S","I","T">>

LnYear == <<"S","E","C","O","N","D"," ","Y","E","A","R">>

LnStudentName == <<"S","T","U","D","E","N","T"," ","N","A","M","E">>

LnNameColon == <<"N","A","M","E",":">>

LnMaria == <<"M","A","R","I","A">>

LnLower == <<"b","s","c","p","e"," ","1","s","t"," ","y","e","a","r">>

LnBlank == <<>>

LnSpaces == <<" ","\t">>

LnLongNo == <<"1","2","3","4","5","-","6","7">>

LnNombre == <<"N","o","m","b","r","e"," ","A","n","a">>

LnNameAl == <<"N","A","M","E",":"," ","A","l">>

LnDate == <<"1","2","/","2","5">>

\* lines that meet every condition of Method 2 but one, and one with
\* punctuation that meets them all
LnShort == <<"A","l"," ","B">>

LnTooLong == <<"J","u","a","n"," ","D","e","l","a"," ","C","r","u","z"," ","J","u","a","n"," ","D","e","l","a"," ","C","r","u","z"," ","J","u","a","n"," ","D","e","l","a"," ","C","r","u","z"," ","J","u","a","n"," ","D">>

LnCourseName == <<"B","S","I","T"," ","J","u","a","n">>

LnYearly == <<"Y","e","a","r","l","y"," ","J","u","a","n">>

LnFourDigits == <<"J","u","a","n"," ","D","e","l","a"," ","C","r","u","z"," ","S","a","n","t","o","s"," ","R","e","y","e","s"," ","2","0","2","4">>

LnSeventy == <<"J","u","a","n"," ","D","e","l"," ","1">>

LnSmallWords == <<"a","b"," ","c","d"," ","e","f">>

LnComma == <<"D","e","l","a"," ","C","r","u","z",","," ","J","u","a","n">>

Catalogue ==
    <<LnStudentNo, LnStudentNo2, LnJuan, LnNameJuan, LnName,
      LnDigits, LnCourse, LnYear, LnStudentName, LnNameColon,
      LnMaria, LnLower, LnBlank, LnSpaces, LnLongNo,
      LnNombre, LnNameAl, LnDate, LnShort, LnTooLong,
      LnCourseName, LnYearly, LnFourDigits, LnSeventy, LnSmallWords,
      LnComma>>

RECURSIVE JoinLines(_)
JoinLines(raw) ==
    IF raw = <<>> THEN <<>>
    ELSE IF Len(raw) = 1 THEN raw[1]
    ELSE raw[1] \o <<"\n">> \o JoinLines(Tail(raw))

Texts ==
    {JoinLines([k \in 1..n |-> Catalogue[f[k]]]) :
        n \in 0..MaxLines, f \in [1..MaxLines -> 1..Len(Catalogue)]}

---------------------------------------------------------------------------
(* The state after IDScanner.__init__ (lines 19-28) and before run; the    *)
(* history variables start empty.                                          *)

FrameSizes == {<<1920, 1080>>, <<1280, 720>>, <<640, 480>>}

NoFiles == [original |-> 0, processed |-> 0, data |-> 0]

NoCapture == [ocr_calls |-> 0, data_written |-> 0, ocr |-> "none", result |-> "none"]

NoEvent == <<"none", FALSE>>

ScannerInit ==
    /\ pc = "start"
    /\ frame_size \in FrameSizes
    /\ button_area = <<>>
    /\ button_pressed = FALSE
    /\ button_hover = FALSE
    /\ trigger_scan = FALSE
    /\ callback_set = FALSE
    /\ key = "none"
    /\ files = NoFiles
    /\ captures = 0
    /\ cap = NoCapture
    /\ last_data = <<>>
    /\ ev = NoEvent
    /\ last_press = "none"
    /\ accessed = {}
    /\ overwritten = FALSE
    /\ failed_read = FALSE
    /\ iter_captures = 0
    /\ clicks = 0
    /\ merged = 0

ExtractIdle ==
    /\ text = <<>>
    /\ lines = <<>>
    /\ epc = "start"
    /\ idx = 0
    /\ rec = InitialFields

---------------------------------------------------------------------------
(* Spec: extract_student_info called on a text of Texts.                   *)

Init ==
    /\ text \in Texts
    /\ lines = <<>>
    /\ epc = "start"
    /\ idx = 0
    /\ rec = InitialFields
    /\ ScannerInit
    /\ frame_size = <<1920, 1080>>

\* lines 239-254: the list of lines and the empty fields
Prepare ==
    /\ epc = "start"
    /\ lines' = ParseLines(text)
    /\ rec' = InitialFields
    /\ idx' = 0
    /\ epc' = "loop"
    /\ UNCHANGED <<text, rvars, hvars>>

\* lines 257-347: one iteration of the loop
ProcessLine ==
    /\ epc = "loop"
    /\ idx < Len(lines)
    /\ rec' = LineStep(lines, idx + 1, rec)
    /\ idx' = idx + 1
    /\ UNCHANGED <<text, lines, epc, rvars, hvars>>

\* lines 349-350: the loop is exhausted and the fields are returned
Return ==
    /\ epc = "loop"
    /\ idx = Len(lines)
    /\ epc' = "done"
    /\ UNCHANGED <<text, lines, idx, rec, rvars, hvars>>

Next == Prepare \/ ProcessLine \/ Return

Spec == Init /\ [][Next]_vars

---------------------------------------------------------------------------
(* The geometry of the overlay: calculate_scan_area (lines 30-62) and      *)
(* calculate_button_area (lines 64-85).  int(a * 0.35) and the like are    *)
(* computed in integers: (a * 35) \div 100.                                *)

\* scan_width_ratio, in hundredths (lines 38-46)
ScanWidthPct(frame_width) ==
    IF frame_width >= 1920 THEN 35
    ELSE IF frame_width >= 1280 THEN 40
    ELSE 50

\* margin_ratio, in hundredths (lines 38-46)
MarginPct(frame_width) ==
    IF frame_width >= 1920 THEN 5
    ELSE IF frame_width >= 1280 THEN 8
    ELSE 10

\* <<x, y, scan_width, scan_height>>; id_aspect_ratio is 2.2
CalculateScanArea(frame_width, frame_height) ==
    LET w0 == (frame_width * ScanWidthPct(frame_width)) \div 100
        h0 == (w0 * 10) \div 22
        max_scan_height ==
            (frame_height * (100 - 2 * MarginPct(frame_width))) \div 100
        scan_height == IF h0 > max_scan_height THEN max_scan_height ELSE h0
        scan_width ==
            IF h0 > max_scan_height THEN (max_scan_height * 22) \div 10 ELSE w0
    IN  <<(frame_width - scan_width) \div 2,
          (frame_height - scan_height) \div 2,
          scan_width, scan_height>>

\* <<button_x, button_y, button_width, button_height>>
CalculateButtonArea(frame_width, frame_height, scan) ==
    LET button_width ==
            IF frame_width >= 1920 THEN 200
            ELSE IF frame_width >= 1280 THEN 160 ELSE 120
        button_height ==
            IF frame_width >= 1920 THEN 60
            ELSE IF frame_width >= 1280 THEN 50 ELSE 40
        button_x == scan[1] + (scan[3] - button_width) \div 2
        below == scan[2] + scan[4] + 30
        button_y ==
            IF below + button_height > frame_height - 20
            THEN scan[2] - button_height - 30
            ELSE below
    IN  <<button_x, button_y, button_width, button_height>>

\* the button that draw_scan_overlay computes for a frame (lines 161-196)
ButtonOf(size) ==
    CalculateButtonArea(size[1], size[2], CalculateScanArea(size[1], size[2]))

\* is_point_in_button, lines 137-140
IsPointInButton(x, y, b) ==
    /\ b[1] <= x /\ x <= b[1] + b[3]
    /\ b[2] <= y /\ y <= b[2] + b[4]

---------------------------------------------------------------------------
(* RunSpec: run (lines 416-460) statement by statement, the capture it     *)
(* calls, and mouse_callback, which HighGUI may call between any two       *)
(* statements of the loop once it is registered.                           *)

MaxCaptures == 2

Keys == {"q", " ", "none"}

MouseEvents == {"MOVE", "LDOWN", "LUP", "OTHER"}

\* the mouse positions tried: two opposite corners of the button, which
\* are inside it, and four points one pixel outside its edges
Probes(b) ==
    {<<b[1], b[2]>>, <<b[1] + b[3], b[2] + b[4]>>,
     <<b[1] - 1, b[2]>>, <<b[1] + b[3] + 1, b[2] + b[4]>>,
     <<b[1], b[2] - 1>>, <<b[1] + b[3], b[2] + b[4] + 1>>}

\* what the OCR engine may return
OcrTexts == {<<>>, JoinLines(<<LnStudentNo, LnJuan>>)}

Fields(r) ==
    [student_no |-> r.student_no, name |-> r.name,
     course |-> r.course, year |-> r.year]

LoopStep == /\ ev' = NoEvent
            /\ UNCHANGED <<evars, frame_size, last_press, overwritten>>

Access(who, fs) == accessed \cup {<<who, a[1], a[2]>> : a \in fs}

RInit == ExtractIdle /\ ScannerInit

\* line 427
RunStart ==
    /\ pc = "start"
    /\ trigger_scan' = FALSE
    /\ accessed' = Access("loop", {<<"trigger_scan", "w">>})
    /\ pc' = "read"
    /\ LoopStep
    /\ clicks' = 0
    /\ UNCHANGED <<iter_captures, merged>>
    /\ UNCHANGED <<button_area, button_pressed, button_hover, callback_set,
                   key, files, captures, cap, last_data, failed_read>>

\* lines 430-431 with a frame: on to the overlay
ReadFrameOk ==
    /\ pc = "read"
    /\ pc' = "overlay"
    /\ LoopStep
    /\ iter_captures' = 0
    /\ UNCHANGED <<clicks, merged>>
    /\ UNCHANGED <<button_area, button_pressed, button_hover, trigger_scan,
                   callback_set, key, files, captures, cap, last_data,
                   accessed, failed_read>>

\* a variant of ReadFrameFail that goes on to the next iteration
ReadFrameFailContinue ==
    /\ pc = "read"
    /\ pc' = "read"
    /\ failed_read' = TRUE
    /\ LoopStep
    /\ iter_captures' = 0
    /\ UNCHANGED <<clicks, merged>>
    /\ UNCHANGED <<button_area, button_pressed, button_hover, trigger_scan,
                   callback_set, key, files, captures, cap, last_data,
                   accessed>>

\* lines 430-433 with no frame: break
ReadFrameFail ==
    /\ pc = "read"
    /\ pc' = "done"
    /\ failed_read' = TRUE
    /\ LoopStep
    /\ iter_captures' = 0
    /\ UNCHANGED <<clicks, merged>>
    /\ UNCHANGED <<button_area, button_pressed, button_hover, trigger_scan,
                   callback_set, key, files, captures, cap, last_data,
                   accessed>>

\* lines 436-440: draw_scan_overlay computes the button and draws it in
\* the colour of its state (lines 90-101)
DrawOverlay ==
    /\ pc = "overlay"
    /\ button_area' = ButtonOf(frame_size)
    /\ accessed' = Access("loop",
           {<<"button_area", "w">>, <<"button_pressed", "r">>}
           \cup (IF button_pressed THEN {} ELSE {<<"button_hover", "r">>}))
    /\ pc' = "show"
    /\ LoopStep
    /\ UNCHANGED <<iter_captures, clicks, merged>>
    /\ UNCHANGED <<button_pressed, button_hover, trigger_scan, callback_set,
                   key, files, captures, cap, last_data, failed_read>>

\* lines 443-447: the window, the callback and the frame
ShowFrame ==
    /\ pc = "show"
    /\ callback_set' = TRUE
    /\ pc' = "waitkey"
    /\ LoopStep
    /\ UNCHANGED <<iter_captures, clicks, merged>>
    /\ UNCHANGED <<button_area, button_pressed, button_hover, trigger_scan,
                   key, files, captures, cap, last_data, accessed, failed_read>>

\* line 450
WaitKey ==
    /\ pc = "waitkey"
    /\ key' \in Keys
    /\ pc' = "dispatch"
    /\ LoopStep
    /\ UNCHANGED <<iter_captures, clicks, merged>>
    /\ UNCHANGED <<button_area, button_pressed, button_hover, trigger_scan,
                   callback_set, files, captures, cap, last_data, accessed,
                   failed_read>>

\* lines 452-453
QuitKey ==
    /\ pc = "dispatch"
    /\ key = "q"
    /\ pc' = "done"
    /\ LoopStep
    /\ UNCHANGED <<iter_captures, clicks, merged>>
    /\ UNCHANGED <<button_area, button_pressed, button_hover, trigger_scan,
                   callback_set, key, files, captures, cap, last_data,
                   accessed, failed_read>>

\* line 454 true: the spacebar, or else the flag
TakeCapture ==
    /\ pc = "dispatch"
    /\ key # "q"
    /\ key = " " \/ trigger_scan
    /\ accessed' = IF key = " " THEN accessed
                   ELSE Access("loop", {<<"trigger_scan", "r">>})
    /\ pc' = "test"
    /\ LoopStep
    /\ UNCHANGED <<iter_captures, clicks, merged>>
    /\ UNCHANGED <<button_area, button_pressed, button_hover, trigger_scan,
                   callback_set, key, files, captures, cap, last_data,
                   failed_read>>

\* line 454 false: the next iteration
NoCaptureWanted ==
    /\ pc = "dispatch"
    /\ key # "q"
    /\ ~(key = " " \/ trigger_scan)
    /\ accessed' = Access("loop", {<<"trigger_scan", "r">>})
    /\ pc' = "read"
    /\ LoopStep
    /\ UNCHANGED <<iter_captures, clicks, merged>>
    /\ UNCHANGED <<button_area, button_pressed, button_hover, trigger_scan,
                   callback_set, key, files, captures, cap, last_data,
                   failed_read>>

\* line 455
TestFlag ==
    /\ pc = "test"
    /\ accessed' = Access("loop", {<<"trigger_scan", "r">>})
    /\ pc' = IF trigger_scan THEN "clear" ELSE "call"
    /\ LoopStep
    /\ UNCHANGED <<iter_captures, clicks, merged>>
    /\ UNCHANGED <<button_area, button_pressed, button_hover, trigger_scan,
                   callback_set, key, files, captures, cap, last_data,
                   failed_read>>

\* a variant of ClearFlag that leaves the flag as it is
ClearFlagKept ==
    /\ pc = "clear"
    /\ merged' = clicks
    /\ accessed' = Access("loop", {<<"trigger_scan", "w">>})
    /\ pc' = "call"
    /\ LoopStep
    /\ UNCHANGED <<button_area, button_pressed, button_hover, trigger_scan,
                   callback_set, key, files, captures, cap, last_data,
                   failed_read, iter_captures, clicks>>

\* line 457
ClearFlag ==
    /\ pc = "clear"
    /\ trigger_scan' = FALSE
    /\ accessed' = Access("loop", {<<"trigger_scan", "w">>})
    /\ pc' = "call"
    /\ LoopStep
    /\ clicks' = 0
    /\ merged' = clicks
    /\ UNCHANGED iter_captures
    /\ UNCHANGED <<button_area, button_pressed, button_hover, callback_set,
                   key, files, captures, cap, last_data, failed_read>>

\* line 460 and lines 354-374: the two images are written, then OCR
CaptureStart ==
    /\ pc = "call"
    /\ captures < MaxCaptures
    /\ captures' = captures + 1
    /\ cap' = NoCapture
    /\ files' = [files EXCEPT !.original = @ + 1, !.processed = @ + 1]
    /\ pc' = "ocr"
    /\ LoopStep
    /\ iter_captures' = iter_captures + 1
    /\ UNCHANGED <<clicks, merged>>
    /\ UNCHANGED <<button_area, button_pressed, button_hover, trigger_scan,
                   callback_set, key, last_data, accessed, failed_read>>

\* lines 378-410: OCR returns a text, the fields are extracted and the
\* data file is written; the capture returns True
OcrOk ==
    /\ pc = "ocr"
    /\ \E t \in OcrTexts : last_data' = Fields(Extract(t))
    /\ files' = [files EXCEPT !.data = @ + 1]
    /\ cap' = [ocr_calls |-> cap.ocr_calls + 1,
               data_written |-> cap.data_written + 1,
               ocr |-> "ok", result |-> "True"]
    /\ pc' = "read"
    /\ LoopStep
    /\ merged' = 0
    /\ UNCHANGED <<iter_captures, clicks>>
    /\ UNCHANGED <<button_area, button_pressed, button_hover, trigger_scan,
                   callback_set, key, captures, accessed, failed_read>>

\* a variant of OcrFail that calls OCR again
OcrFailRetry ==
    /\ pc = "ocr"
    /\ cap.ocr_calls < 2
    /\ cap' = [cap EXCEPT !.ocr_calls = @ + 1,
                          !.ocr = "failed", !.result = "False"]
    /\ pc' = "ocr"
    /\ LoopStep
    /\ UNCHANGED <<iter_captures, clicks, merged>>
    /\ UNCHANGED <<button_area, button_pressed, button_hover, trigger_scan,
                   callback_set, key, files, captures, last_data, accessed,
                   failed_read>>

\* lines 378 and 412-414: OCR raises; the capture returns False
OcrFail ==
    /\ pc = "ocr"
    /\ cap' = [cap EXCEPT !.ocr_calls = @ + 1,
                          !.ocr = "failed", !.result = "False"]
    /\ pc' = "read"
    /\ LoopStep
    /\ merged' = 0
    /\ UNCHANGED <<iter_captures, clicks>>
    /\ UNCHANGED <<button_area, button_pressed, button_hover, trigger_scan,
                   callback_set, key, files, captures, last_data, accessed,
                   failed_read>>

\* mouse_callback(event, x, y), lines 142-157
MouseCallback(event, x, y) ==
    LET hover == IsPointInButton(x, y, button_area)
        click == event = "LUP" /\ button_pressed /\ hover
    IN  IF button_area = <<>>
        THEN /\ accessed' = Access("callback", {<<"button_area", "r">>})
             /\ UNCHANGED <<button_hover, button_pressed, trigger_scan,
                            overwritten, clicks>>
        ELSE /\ button_hover' = hover
             /\ button_pressed' =
                    IF event = "LDOWN" /\ hover THEN TRUE
                    ELSE IF event = "LUP" THEN FALSE
                    ELSE button_pressed
             /\ trigger_scan' = IF click THEN TRUE ELSE trigger_scan
             /\ clicks' = IF click THEN (IF clicks = 0 THEN 1 ELSE 2)
                           ELSE clicks
             /\ overwritten' = (overwritten \/ (click /\ pc = "clear"))
             /\ accessed' = Access("callback",
                    {<<"button_area", "r">>, <<"button_hover", "w">>}
                    \cup (IF event = "LDOWN"
                          THEN {<<"button_hover", "r">>}
                               \cup (IF hover THEN {<<"button_pressed", "w">>}
                                     ELSE {})
                          ELSE IF event = "LUP"
                          THEN {<<"button_pressed", "r">>,
                                <<"button_pressed", "w">>}
                               \cup (IF button_pressed
                                     THEN {<<"button_hover", "r">>} ELSE {})
                               \cup (IF click THEN {<<"trigger_scan", "w">>}
                                     ELSE {})
                          ELSE {}))

\* HighGUI delivers a mouse event to the registered callback
MouseEvent ==
    /\ callback_set
    /\ pc # "done"
    /\ \E event \in MouseEvents, p \in Probes(ButtonOf(frame_size)) :
          LET inside == IsPointInButton(p[1], p[2], ButtonOf(frame_size))
          IN  /\ MouseCallback(event, p[1], p[2])
              /\ ev' = <<event, inside>>
              /\ last_press' =
                     IF event = "LDOWN"
                     THEN (IF inside THEN "in" ELSE "out")
                     ELSE last_press
    /\ UNCHANGED <<evars, pc, frame_size, button_area, callback_set, key,
                   files, captures, cap, last_data, failed_read,
                   iter_captures, merged>>

RNext ==
    \/ RunStart \/ ReadFrameOk \/ ReadFrameFail \/ DrawOverlay \/ ShowFrame
    \/ WaitKey \/ QuitKey \/ TakeCapture \/ NoCaptureWanted
    \/ TestFlag \/ ClearFlag \/ CaptureStart \/ OcrOk \/ OcrFail
    \/ MouseEvent

RunSpec == RInit /\ [][RNext]_vars

---------------------------------------------------------------------------
(* The claims about extract_student_info, checked under Spec.              *)

Last(S) == CHOOSE k \in S : \A j \in S : k >= j

RawLines(t) == SplitChar(t, "\n")

\* the match in the last line of t that Search matches, <<>> if none does
LastMatch(t, Search(_)) ==
    LET raw == RawLines(t)
        hits == {k \in 1..Len(raw) : Search(raw[k]) # <<>>}
    IN  IF hits = {} THEN <<>> ELSE Search(raw[Last(hits)])

CourseOf(l) == SearchCourse(Upper(l))

YearOf(l) == SearchYear(Upper(l))

TwoStudentNos == JoinLines(<<LnStudentNo, LnStudentNo2>>)

\* C1: student_no, course and year are last-match-wins: when the function
\* returns, each equals the match taken from the last line of the text on
\* which its pattern matches (course and year on the uppercased line), and
\* is empty only if no line matches.
C1_LastMatchWins ==
    epc = "done" =>
        /\ rec.student_no = LastMatch(text, SearchStudentNo)
        /\ rec.course = LastMatch(text, CourseOf)
        /\ rec.year = LastMatch(text, YearOf)

\* a text with two different student numbers has returned the later one
C1_Witness ==
    /\ epc = "done"
    /\ text = TwoStudentNos
    /\ rec.student_no = SearchStudentNo(LnStudentNo2)
    /\ rec.student_no # SearchStudentNo(LnStudentNo)

\* the student number known when line i of ls is searched for a name
StudentNoUpTo(ls, i) ==
    LET hits == {k \in 1..i : SearchStudentNo(ls[k]) # <<>>}
    IN  IF hits = {} THEN <<>> ELSE SearchStudentNo(ls[Last(hits)])

\* what the three strategies, tried in order, make of line i of ls
StrategyChoice(ls, i) ==
    IF Method1(ls, i).found THEN Method1(ls, i)
    ELSE IF Method2(ls[i]).found THEN Method2(ls[i])
    ELSE Method3(ls, i, StudentNoUpTo(ls, i))

HasKeyword(line) ==
    \E k \in 1..Len(NameKeywords) : Contains(Upper(line), NameKeywords[k])

C2_FirstSuccess ==
    epc = "done" =>
        LET hits == {i \in 1..Len(lines) : StrategyChoice(lines, i).found}
        IN  IF hits = {}
            THEN ~rec.name_found /\ rec.name = <<>> /\ rec.via = "none"
            ELSE /\ rec.name_found
                 /\ rec.at = Leftmost(hits)
                 /\ rec.name = StrategyChoice(lines, Leftmost(hits)).name
                 /\ rec.via = StrategyChoice(lines, Leftmost(hits)).via

C2_ShapeBeforeKeyword ==
    epc = "done" =>
        \A i \in 1..Len(lines), j \in 1..Len(lines) :
            (/\ i < j
             /\ \A h \in 1..(i - 1) : ~StrategyChoice(lines, h).found
             /\ ~Method1(lines, i).found
             /\ Method2(lines[i]).found
             /\ HasKeyword(lines[j]))
            => rec.name = lines[i] /\ rec.via = "2" /\ rec.at = i

C2_NameKept ==
    rec.name_found =>
        /\ rec'.name_found
        /\ rec'.name = rec.name
        /\ rec'.via = rec.via
        /\ rec'.at = rec.at

\* C2: name resolution is first-success-wins in line order: the name
\* returned is the one the first accepting strategy (1, then 2, then 3)
\* gives on the first line that any strategy accepts; once a name is
\* accepted no later step changes it; and a line accepted by Strategy 2
\* keeps its name when a later line carries a keyword.
C2_FirstSuccessWins ==
    /\ [](C2_FirstSuccess /\ C2_ShapeBeforeKeyword)
    /\ [][C2_NameKept]_vars

\* a shape-accepted first line followed by a keyword line has returned
\* the first line
C2_Witness ==
    /\ epc = "done"
    /\ text = JoinLines(<<LnJuan, LnNombre>>)
    /\ rec.name = LnJuan
    /\ rec.via = "2"
    /\ Method1(lines, 2).found

NumberThenJuan == JoinLines(<<LnStudentNo, LnJuan>>)

\* C3 as stated: for "1234-56" followed by "Juan Dela Cruz" the name is
\* "Juan Dela Cruz" and the strategy that accepts it is Strategy 3.
C3_ViaStrategy3 ==
    (epc = "done" /\ text = NumberThenJuan) =>
        rec.name = LnJuan /\ rec.via = "3"

\* C3 as amended: for "1234-56" followed by "Juan Dela Cruz" the result is
\* student_no "1234-56" and name "Juan Dela Cruz", and the strategy that
\* accepts the name is Strategy 2 on the second line: Strategy 1 does not
\* accept that line and Strategy 3, which would, is not reached.
C3_ViaStrategy2 ==
    (epc = "done" /\ text = NumberThenJuan) =>
        /\ rec.student_no = LnStudentNo
        /\ rec.name = LnJuan
        /\ rec.via = "2"
        /\ rec.at = 2
        /\ ~Method1(lines, 2).found
        /\ Method3(lines, 2, rec.student_no).found

C3_Witness ==
    /\ epc = "done"
    /\ text = NumberThenJuan
    /\ rec.name = LnJuan
    /\ rec.name_found

\* a line of digits and punctuation only
DigitsAndPunctuation(l) ==
    /\ l # <<>>
    /\ \A k \in 1..Len(l) : IsDigit(l[k]) \/ (~IsWord(l[k]) /\ ~IsSpace(l[k]))

\* C4: no line of the text that consists only of digits and punctuation
\* is returned as the name.
C4_NoDigitLineAsName ==
    epc = "done" =>
        \A k \in 1..Len(RawLines(text)) :
            DigitsAndPunctuation(Strip(RawLines(text)[k]))
                => rec.name # Strip(RawLines(text)[k])

\* the first keyword of the list whose removal leaves an acceptable rest
RemovalChoice(line_upper) ==
    LET ok == {k \in 1..Len(NameKeywords) :
                  /\ Contains(line_upper, NameKeywords[k])
                  /\ SubC(line_upper, NameKeywords[k]).found}
    IN  IF ok = {} THEN NoName ELSE SubC(line_upper, NameKeywords[Leftmost(ok)])

C5_Order ==
    (/\ epc = "loop" /\ idx < Len(lines) /\ idx' = idx + 1
     /\ ~rec.name_found
     /\ HasKeyword(lines[idx + 1]))
    => LET i == idx + 1
           a == SubA(lines[i])
           b == SubB(lines, i)
           c == RemovalChoice(Upper(lines[i]))
       IN  /\ a.found => rec'.name = a.name /\ rec'.via = "1a"
           /\ (~a.found /\ b.found) => rec'.name = b.name /\ rec'.via = "1b"
           /\ (~a.found /\ ~b.found /\ c.found)
                  => rec'.name = c.name /\ rec'.via = "1c"
           /\ (~a.found /\ ~b.found /\ ~c.found)
                  => rec'.via \notin {"1a", "1b", "1c"}
           /\ lines[i] = LnNameJuan
                  => rec'.name = LnJuan /\ rec'.via = "1a" /\ rec'.at = i

\* C5: on a keyword line reached with no name yet, the sub-strategies are
\* tried in the order (a) colon split, (b) next line, (c) keyword removal
\* and the first acceptable candidate is the name; "NAME: Juan Dela Cruz"
\* gives "Juan Dela Cruz" by (a) whatever line follows.
C5_SubStrategyOrder == [][C5_Order]_vars

\* "NAME: Juan Dela Cruz" followed by an acceptable next line has
\* returned the text after the colon
C5_Witness ==
    /\ epc = "done"
    /\ text = JoinLines(<<LnNameJuan, LnMaria>>)
    /\ SubB(lines, 1).found
    /\ rec.name = LnJuan
    /\ rec.via = "1a"

AllBlank(t) == \A k \in 1..Len(t) : IsSpace(t[k])

IsString(v) == DOMAIN v = 1..Len(v)

\* C6: a text with no non-blank line returns four empty strings, and in
\* every result a field that no matcher or strategy set is the empty
\* string; every field is a string.
C6_EmptyFields ==
    epc = "done" =>
        /\ AllBlank(text) =>
               /\ lines = <<>>
               /\ Fields(rec) = [student_no |-> <<>>, name |-> <<>>,
                                 course |-> <<>>, year |-> <<>>]
        /\ LastMatch(text, SearchStudentNo) = <<>> => rec.student_no = <<>>
        /\ LastMatch(text, CourseOf) = <<>> => rec.course = <<>>
        /\ LastMatch(text, YearOf) = <<>> => rec.year = <<>>
        /\ rec.via = "none" => rec.name = <<>>
        /\ \A f \in {"student_no", "name", "course", "year"} : IsString(rec[f])

\* a non-empty text of whitespace and newlines has returned
C6_Witness ==
    /\ epc = "done"
    /\ text = JoinLines(<<LnSpaces, LnBlank>>)
    /\ text # <<>>
    /\ rec.name = <<>>

---------------------------------------------------------------------------
(* The claims about run, capture_and_process_scan and mouse_callback,      *)
(* checked under RunSpec.                                                  *)

C7_AfterFailure ==
    cap.ocr = "failed" =>
        /\ cap.result = "False"
        /\ cap.data_written = 0
        /\ cap.ocr_calls = 1
        /\ pc \notin {"ocr", "start"}

C7_FailureStep ==
    (pc = "ocr" /\ cap'.ocr = "failed") =>
        /\ cap'.result = "False"
        /\ cap'.ocr_calls = 1
        /\ files' = files
        /\ last_data' = last_data
        /\ pc' = "read"

\* C7: when the OCR call of a capture fails, the capture returns False,
\* writes no data file, has called OCR exactly once, and the run loop is
\* back at its frame acquisition.
C7_OcrFailureContained ==
    /\ []C7_AfterFailure
    /\ [][C7_FailureStep]_vars

\* after a failed capture, which left two images and no data file, the
\* loop has read the next frame
C7_Witness ==
    /\ cap.ocr = "failed"
    /\ pc = "overlay"
    /\ files = [original |-> 1, processed |-> 1, data |-> 0]

C8_FailureStep ==
    (failed_read' /\ ~failed_read) =>
        /\ pc = "read"
        /\ pc' = "done"
        /\ captures' = captures
        /\ files' = files

C8_NothingAfter ==
    failed_read =>
        /\ captures' = captures
        /\ files' = files
        /\ cap' = cap
        /\ last_data' = last_data
        /\ pc' = "done"

\* C8: the first frame acquisition that returns no frame ends the loop:
\* that step starts no capture, whether or not a click is pending, the
\* loop is then done for good, and no capture occurs afterwards.
C8_NoFrameEndsLoop ==
    /\ [](failed_read => pc = "done")
    /\ [][C8_FailureStep]_vars
    /\ [][C8_NothingAfter]_vars

\* the loop has ended on a failed acquisition with a click still pending
C8_Witness ==
    /\ failed_read
    /\ pc = "done"
    /\ trigger_scan
    /\ captures = 0

C9_Step ==
    ev'[1] # "none" =>
        LET event == ev'[1]
            inside == ev'[2]
            click == event = "LUP" /\ inside /\ button_pressed
        IN  /\ button_area # <<>> =>
                /\ click => trigger_scan'
                /\ ~click => trigger_scan' = trigger_scan
                /\ (button_pressed' /\ ~button_pressed)
                       => (event = "LDOWN" /\ inside)
                /\ (event = "LUP" /\ ~inside /\ last_press = "in")
                       => trigger_scan' = trigger_scan
                /\ (event = "LUP" /\ inside /\ last_press = "out")
                       => trigger_scan' = trigger_scan
                /\ event = "LUP" => ~button_pressed'
            /\ button_area = <<>> =>
                UNCHANGED <<button_hover, button_pressed, trigger_scan>>

\* C9: over any sequence of mouse events, trigger_scan is set exactly by a
\* left-button release inside the button while button_pressed is set;
\* button_pressed is set only by a left-button press inside; a press
\* inside followed by a release outside, or a press outside followed by a
\* release inside, never sets trigger_scan; button_pressed is false after
\* every release; and an event that arrives before the button area exists
\* changes nothing.
C9_ClickOnlyWhileHovered == [][C9_Step]_vars

\* the attributes of self that the loop and the callback both access, at
\* least one of them writing
SharedMutable ==
    {a[2] : a \in {b \in accessed :
        \E c \in accessed :
            /\ c[1] # b[1]
            /\ c[2] = b[2]
            /\ "w" \in {b[3], c[3]}}}

\* C10: trigger_scan is the only mutable state shared between the
\* callback and the loop, and no write of the flag by the callback falls
\* between the loop's test of the flag and the loop's clear of it.
C10_OnlyFlagSharedAndAtomic ==
    /\ SharedMutable \subseteq {"trigger_scan"}
    /\ ~overwritten

---------------------------------------------------------------------------
\* C11: the shape strategy

\* the seven conditions as the specification lists them, on a trimmed line
C11_Clean(line) == Strip(PunctToSpace(line))

C11_TwoWords(line) == Len(Words(C11_Clean(line))) >= 2

C11_LengthInRange(line) == Len(C11_Clean(line)) \in 5..50

C11_NoNumberNoCourse(line) ==
    /\ SearchStudentNo(line) = <<>>
    /\ SearchCourse(Upper(line)) = <<>>

C11_NoYear(line) == ~Contains(Upper(line), kYEAR)

C11_NoFourDigits(line) ==
    ~\E k \in 1..(Len(line) - 3) : \A j \in 0..3 : IsDigit(line[k + j])

C11_MostlyLetters(line) ==
    10 * Cardinality({k \in 1..Len(line) : IsAlpha(line[k])}) > 7 * Len(line)

C11_SomeNameWord(line) ==
    LET words == Words(C11_Clean(line))
    IN  \E k \in 1..Len(words) :
            IsUpperChar(words[k][1]) \/ Len(words[k]) > 2

C11_Conditions(line) ==
    <<C11_TwoWords(line), C11_LengthInRange(line),
      C11_NoNumberNoCourse(line), C11_NoYear(line), C11_NoFourDigits(line),
      C11_MostlyLetters(line), C11_SomeNameWord(line)>>

C11_AllHold(line) ==
    /\ C11_TwoWords(line)
    /\ C11_LengthInRange(line)
    /\ C11_NoNumberNoCourse(line)
    /\ C11_NoYear(line)
    /\ C11_NoFourDigits(line)
    /\ C11_MostlyLetters(line)
    /\ C11_SomeNameWord(line)

\* the conditions of line that fail
C11_Failing(line) == {k \in 1..7 : ~C11_Conditions(line)[k]}

\* one iteration of the loop on a line while no name has been accepted
C11_Step ==
    (epc = "loop" /\ idx' = idx + 1 /\ ~rec.name_found) =>
        LET line == lines[idx']
            by1 == Method1(lines, idx').found
            by2 == rec'.name_found /\ rec'.via = "2"
        IN  IF by1 THEN ~by2
            ELSE /\ by2 <=> C11_AllHold(line)
                 /\ by2 => rec'.name = line /\ rec'.at = idx'

\* C11: Strategy 2 is attempted on a line only when Strategy 1 accepted
\* nothing on it, and it accepts the trimmed raw line as the name if and
\* only if all of these hold: with punctuation replaced by spaces the line
\* splits into at least 2 words; that text has length 5..50; the line
\* matches neither the student-number pattern nor (uppercased) the course
\* pattern; the uppercased line does not contain YEAR; the line has no run
\* of 4 consecutive digits; alphabetic characters are more than 0.7 of the
\* line's length; and some word starts with an uppercase letter or is
\* longer than 2 characters.
C11_ShapeStrategy == [][C11_Step]_vars

\* a line with exactly 0.7 of letters, which fails that condition alone,
\* was passed over and the next line, with punctuation, was accepted raw
C11_Witness ==
    /\ epc = "done"
    /\ text = JoinLines(<<LnSeventy, LnComma>>)
    /\ C11_Failing(lines[1]) = {6}
    /\ C11_AllHold(lines[2])
    /\ ~Method1(lines, 1).found /\ ~Method1(lines, 2).found
    /\ rec.via = "2"
    /\ rec.at = 2
    /\ rec.name = LnComma

---------------------------------------------------------------------------
\* C12: one capture per iteration

\* a capture starts only at the call of line 460, once in an iteration,
\* for the spacebar or for the pending clicks that this iteration cleared
C12_CaptureStep ==
    captures' # captures =>
        /\ pc = "call"
        /\ captures' = captures + 1
        /\ iter_captures = 0
        /\ iter_captures' = 1
        /\ key = " " \/ merged > 0

\* a pending flag found by the test of line 455 is cleared by the loop's
\* next statement, and the clear is followed by the call, not before
C12_ResetStep ==
    /\ (pc = "test" /\ trigger_scan /\ pc' # pc) => pc' = "clear"
    /\ (pc = "test" /\ ~trigger_scan /\ pc' # pc) =>
            pc' = "call" /\ key = " "
    /\ (pc = "clear" /\ pc' # pc) =>
            /\ pc' = "call"
            /\ ~trigger_scan'
            /\ clicks' = 0
            /\ merged' = clicks
            /\ captures' = captures
    /\ pc' = "call" => pc \in {"test", "clear", "call"}

\* 'q' ends the loop without a capture, whatever the flag, and nothing is
\* captured after the loop
C12_QuitStep ==
    /\ (pc = "dispatch" /\ key = "q" /\ pc' # pc) =>
            /\ pc' = "done"
            /\ captures' = captures
            /\ trigger_scan' = trigger_scan
    /\ pc = "done" => pc' = "done" /\ captures' = captures

\* the flag is pending exactly when a click has completed since the loop
\* last wrote it; an iteration has started at most one capture; cleared
\* clicks are at the call or in its capture, which is the iteration's one;
\* and the iteration that ended the loop started none
C12_Counts ==
    /\ trigger_scan <=> clicks > 0
    /\ iter_captures \in {0, 1}
    /\ merged > 0 => pc \in {"call", "ocr"}
    /\ pc = "ocr" => iter_captures = 1
    /\ pc = "done" => iter_captures = 0

\* C12: one iteration of the run loop starts at most one capture, and a
\* pending trigger_scan is reset to False before capture_and_process_scan
\* is called; hence a spacebar press coinciding with a pending click, or
\* several completed clicks delivered between two polls of the flag,
\* produce exactly one capture, and a pending click is discarded without
\* any capture when the same iteration reads the 'q' key.
C12_OneCapturePerIteration ==
    /\ []C12_Counts
    /\ [][C12_CaptureStep /\ C12_ResetStep /\ C12_QuitStep]_vars

\* the spacebar was read while several completed clicks were pending: the
\* iteration cleared them all and is in its one capture
C12_Witness ==
    /\ pc = "ocr"
    /\ key = " "
    /\ merged = 2
    /\ iter_captures = 1
    /\ captures = 1
    /\ ~trigger_scan
    /\ clicks = 0

\* 'q' was read while a click was pending: the loop has ended with the
\* flag still set and without a capture
C12_QuitWithPendingClick ==
    /\ pc = "done"
    /\ key = "q"
    /\ trigger_scan
    /\ captures = 0
    /\ ~failed_read

===========================================================================
